---------------------------- MODULE Spec2Model ----------------------------
(***************************************************************************)
(* gettsim: statutory pension claim (transfers/rente.py), Grundsicherung   *)
(* im Alter (transfers/grundsicherung.py) and the deduction of             *)
(* Vorsorgeaufwendungen (taxes/zu_verst_eink/vorsorgeaufw.py).             *)
(*                                                                         *)
(* The formulas are pure functions; every one is an operator that carries  *)
(* the name of the Python function it is translated from.  A state machine *)
(* per component evaluates the functions in the order of their data        *)
(* dependencies, starting from inputs drawn from bounded sets.             *)
(*                                                                         *)
(* Fixed-point representation of the floats:                               *)
(*   ages                 1/720 year  (tenths and twelfths are exact)      *)
(*   birth dates (x)      months      (12 * year + month)                  *)
(*   Zugangsfaktor rates  1/1000 per year                                  *)
(*   Zugangsfaktor        1/720000    (age unit * rate unit)               *)
(*   wages, ceilings      1/100 Euro                                       *)
(*   Entgeltpunkte        1/1000 point                                     *)
(***************************************************************************)
EXTENDS Integers, Sequences, FiniteSets, TLC

\* ------------------------------------------------------------- bounds
\* birth cohorts 1955 .. 1955 + MaxCohort
MaxCohort == 1
\* retirement years 2020 .. 2020 + MaxRetire (and one extreme early year)
MaxRetire == 2

\* ------------------------------------------------------------ helpers
Max(a, b) == IF a >= b THEN a ELSE b
Min(a, b) == IF a <= b THEN a ELSE b

\* The lowest threshold of every piecewise specification (minus infinity).
NegInf == -1000000

\* Results of a function call: not called yet, a value, or a raised exception.
NotComputed == [st |-> "none", v |-> 0]
Val(x) == [st |-> "ok", v |-> x]
Raised(e) == [st |-> e, v |-> 0]

\* --------------------------------------------------- piecewise evaluator
\* Greatest index i with thresholds[i] <= x; value intercepts[i] +
\* rates[i] * (x - thresholds[i]).
piecewise_polynomial(x, spec) ==
    LET idx == CHOOSE i \in 1..Len(spec.thresholds) :
                   /\ spec.thresholds[i] <= x
                   /\ \A j \in 1..Len(spec.thresholds) :
                          spec.thresholds[j] <= x => j <= i
    IN  spec.intercepts_at_lower_thresholds[idx] + spec.rates[idx] * (x - spec.thresholds[idx])


\* ------------------------------------------------------------ variables
VARIABLES
    rente_in,     \* rente.py: basic input variables and ges_rente_params of one person
    rente_out,    \* rente.py: the derived columns computed so far
    verm_in,      \* grundsicherung.py, wealth test: the series as the caller built them
    regelbedarf_m_hh,  \* the caller's regelbedarf_m_hh series object, as it is now
    verm_out,     \* grundsicherung.py, wealth test: the derived series computed so far
    grund_in,     \* grundsicherung.py, income and priority: the caller's series
    grund_out,    \* grundsicherung.py, income and priority: derived series so far
    eink_in,      \* grundsicherung.py, countable income: the caller's series
    eink_out,     \* grundsicherung.py, countable income: derived series so far
    vors_in,      \* vorsorgeaufw.py: tax unit inputs and eink_st_abzuege_params
    vors_out,     \* vorsorgeaufw.py: the derived columns computed so far
    entgeltp_in,  \* rente.py, earning points: inputs, ges_rente_params, soz_vers_beitr_params
    entgeltp_out  \* rente.py, earning points: the derived columns computed so far

renteVars == <<rente_in, rente_out>>
vermVars == <<verm_in, regelbedarf_m_hh, verm_out>>
grundVars == <<grund_in, grund_out>>
einkVars == <<eink_in, eink_out>>
vorsVars == <<vors_in, vors_out>>
entgeltpVars == <<entgeltp_in, entgeltp_out>>
vars == <<renteVars, vermVars, grundVars, einkVars, vorsVars, entgeltpVars>>

\* What a run of one component leaves alone.
exceptRente == <<vermVars, grundVars, einkVars, vorsVars, entgeltpVars>>
exceptVerm == <<renteVars, grundVars, einkVars, vorsVars, entgeltpVars>>
exceptGrund == <<renteVars, vermVars, einkVars, vorsVars, entgeltpVars>>
exceptEink == <<renteVars, vermVars, grundVars, vorsVars, entgeltpVars>>
exceptVors == <<renteVars, vermVars, grundVars, einkVars, entgeltpVars>>
exceptEntgeltp == <<renteVars, vermVars, grundVars, einkVars, vorsVars>>
IdleVerm == verm_in = <<>> /\ regelbedarf_m_hh = <<>> /\ verm_out = <<>>
IdleRente == rente_in = <<>> /\ rente_out = <<>>
IdleGrund == grund_in = <<>> /\ grund_out = <<>>
IdleEink == eink_in = <<>> /\ eink_out = <<>>
IdleVors == vors_in = <<>> /\ vors_out = <<>>
IdleEntgeltp == entgeltp_in = <<>> /\ entgeltp_out = <<>>

\* ------------------------------------------------------------- rente.py
\* One full Zugangsfaktor (1.0) in fixed point.
One == 720 * 1000

\* Mutant: the supplement is paid without looking at rentner.
ges_rente_nach_grundr_m_ungated(ges_rente_vor_grundr_m_, grundr_zuschlag_m, rentner) ==
    ges_rente_vor_grundr_m_ + grundr_zuschlag_m

ges_rente_nach_grundr_m(ges_rente_vor_grundr_m_, grundr_zuschlag_m, rentner) ==
    IF rentner THEN ges_rente_vor_grundr_m_ + grundr_zuschlag_m ELSE 0

ges_rente_vor_grundr_m(ges_rente_zugangsfaktor_, entgeltp_update_, rentenwert_, rentner) ==
    IF rentner
    THEN entgeltp_update_ * ges_rente_zugangsfaktor_ * rentenwert_
    ELSE 0

\* Mutant: the final max(out, 0.0) is missing.
ges_rente_zugangsfaktor_unclamped(geburtsjahr, rentner, jahr_renteneintr, ges_rente_regelaltersgrenze_, ges_rente_params) ==
    IF rentner
    THEN LET diff == 720 * (jahr_renteneintr - geburtsjahr) - ges_rente_regelaltersgrenze_
             zf == ges_rente_params.zugangsfaktor_veraenderung_pro_jahr
         IN  IF diff < 0
             THEN One + diff * zf.vorzeitiger_renteneintritt
             ELSE One + diff * zf.spaeterer_renteneintritt
    ELSE 0

\* Mutant: the early and the late rate are taken from each other's key.
ges_rente_zugangsfaktor_swapped(geburtsjahr, rentner, jahr_renteneintr, ges_rente_regelaltersgrenze_, ges_rente_params) ==
    IF rentner
    THEN LET diff == 720 * (jahr_renteneintr - geburtsjahr) - ges_rente_regelaltersgrenze_
             zf == ges_rente_params.zugangsfaktor_veraenderung_pro_jahr
         IN  Max(IF diff < 0
                 THEN One + diff * zf.spaeterer_renteneintritt
                 ELSE One + diff * zf.vorzeitiger_renteneintritt, 0)
    ELSE 0

ges_rente_zugangsfaktor(geburtsjahr, rentner, jahr_renteneintr, ges_rente_regelaltersgrenze_, ges_rente_params) ==
    IF rentner
    THEN LET alter_renteneintritt == jahr_renteneintr - geburtsjahr
             diff == 720 * alter_renteneintritt - ges_rente_regelaltersgrenze_
             faktor_pro_jahr_vorzeitig ==
                 ges_rente_params.zugangsfaktor_veraenderung_pro_jahr.vorzeitiger_renteneintritt
             faktor_pro_jahr_spaeter ==
                 ges_rente_params.zugangsfaktor_veraenderung_pro_jahr.spaeterer_renteneintritt
             out == IF diff < 0
                    THEN One + diff * faktor_pro_jahr_vorzeitig
                    ELSE One + diff * faktor_pro_jahr_spaeter
         IN  Max(out, 0)
    ELSE 0

ges_rente_regelaltersgrenze(geburtsjahr, ges_rente_params) ==
    piecewise_polynomial(12 * geburtsjahr, ges_rente_params.regelaltersgrenze)

\* list.extend(iterable): a float is not iterable, so the call raises
\* TypeError; on an iterable it appends in place and returns None.
list_extend_raises(iterable) == iterable \in Int

ges_rente_grenze_altersrente(geburtsjahr, geburtsmonat, geschlecht, ges_rente_params) ==
    LET regelrente ==
            piecewise_polynomial(12 * geburtsjahr, ges_rente_params.regelaltersgrenze)
        pension_for_women ==
            piecewise_polynomial(12 * geburtsjahr + geburtsmonat,
                                 ges_rente_params.altersrente_fuer_frauen)
    IN  IF list_extend_raises(pension_for_women)
        THEN Raised("TypeError")      \* thresholds_m.extend(pension_for_women)
        ELSE IF geschlecht = 0
             THEN Val(Min(regelrente, pension_for_women))  \* the extended list
             ELSE Raised("TypeError") \* min(None)

\* ------------------------------------------------------ rente.py: inputs
\* Regelaltersgrenze tables (thresholds in months, ages in 1/720 year).
\* Law: 65 until cohort 1946, one month more per cohort from 1947, 66 and
\* two months more per cohort from 1958.
RegelLaw == [thresholds |-> <<NegInf, 12 * 1947, 12 * 1958>>,
             rates      |-> <<0, 5, 10>>,
             intercepts_at_lower_thresholds |-> <<65 * 720, 65 * 720, 66 * 720>>]
\* 65 until cohort 1954, 65.6 from cohort 1955.
RegelStep == [thresholds |-> <<NegInf, 12 * 1955>>,
              rates      |-> <<0, 0>>,
              intercepts_at_lower_thresholds |-> <<65 * 720, 47232>>]
\* 65 for every cohort up to 1955, 66 after.
RegelFlat == [thresholds |-> <<NegInf, 12 * 1956>>,
              rates      |-> <<0, 0>>,
              intercepts_at_lower_thresholds |-> <<65 * 720, 66 * 720>>]
\* Altersrente fuer Frauen: 60 for births until June 1955, 67 after.
FrauenStep == [thresholds |-> <<NegInf, 12 * 1955 + 7>>,
               rates      |-> <<0, 0>>,
               intercepts_at_lower_thresholds |-> <<60 * 720, 67 * 720>>]

RegelTables == {RegelLaw, RegelStep, RegelFlat}
\* Early and late rates per year, in 1/1000, of either sign.
EarlyRates == {-3, 36}
LateRates == {60, -500}

GesRenteParams ==
    { [regelaltersgrenze |-> t,
       altersrente_fuer_frauen |-> FrauenStep,
       zugangsfaktor_veraenderung_pro_jahr |->
           [vorzeitiger_renteneintritt |-> e, spaeterer_renteneintritt |-> l]]
      : t \in RegelTables, e \in EarlyRates, l \in LateRates }

BirthYears == 1955..(1955 + MaxCohort)
RetireYears == {1990} \cup (2020..(2020 + MaxRetire))

RenteInputs ==
    [geburtsjahr : BirthYears,
     geburtsmonat : {1, 12},
     geschlecht : {0, 1},
     rentner : BOOLEAN,
     jahr_renteneintr : RetireYears,
     entgeltp_update : {0, 2},
     rentenwert : {3},
     grundr_zuschlag_m : {0, 5},
     ges_rente_params : GesRenteParams]

RenteNames == {"ges_rente_regelaltersgrenze", "ges_rente_grenze_altersrente",
               "ges_rente_zugangsfaktor", "ges_rente_vor_grundr_m",
               "ges_rente_nach_grundr_m"}

Computed(out, name) == out[name].st = "ok"
Pending(out, name) == out[name].st = "none"

InitRente ==
    /\ rente_in \in RenteInputs
    /\ rente_out = [n \in RenteNames |-> NotComputed]
    /\ IdleVerm /\ IdleGrund /\ IdleEink /\ IdleVors /\ IdleEntgeltp

CalcRegelaltersgrenze ==
    /\ Pending(rente_out, "ges_rente_regelaltersgrenze")
    /\ rente_out' = [rente_out EXCEPT !["ges_rente_regelaltersgrenze"] =
           Val(ges_rente_regelaltersgrenze(rente_in.geburtsjahr,
                                           rente_in.ges_rente_params))]
    /\ UNCHANGED <<rente_in, exceptRente>>

CalcGrenzeAltersrente ==
    /\ Pending(rente_out, "ges_rente_grenze_altersrente")
    /\ rente_out' = [rente_out EXCEPT !["ges_rente_grenze_altersrente"] =
           ges_rente_grenze_altersrente(rente_in.geburtsjahr, rente_in.geburtsmonat,
                                        rente_in.geschlecht, rente_in.ges_rente_params)]
    /\ UNCHANGED <<rente_in, exceptRente>>

CalcZugangsfaktor ==
    /\ Pending(rente_out, "ges_rente_zugangsfaktor")
    /\ Computed(rente_out, "ges_rente_regelaltersgrenze")
    /\ rente_out' = [rente_out EXCEPT !["ges_rente_zugangsfaktor"] =
           Val(ges_rente_zugangsfaktor(rente_in.geburtsjahr, rente_in.rentner,
                                       rente_in.jahr_renteneintr,
                                       rente_out["ges_rente_regelaltersgrenze"].v,
                                       rente_in.ges_rente_params))]
    /\ UNCHANGED <<rente_in, exceptRente>>

CalcVorGrundr ==
    /\ Pending(rente_out, "ges_rente_vor_grundr_m")
    /\ Computed(rente_out, "ges_rente_zugangsfaktor")
    /\ rente_out' = [rente_out EXCEPT !["ges_rente_vor_grundr_m"] =
           Val(ges_rente_vor_grundr_m(rente_out["ges_rente_zugangsfaktor"].v,
                                      rente_in.entgeltp_update,
                                      rente_in.rentenwert, rente_in.rentner))]
    /\ UNCHANGED <<rente_in, exceptRente>>

CalcNachGrundr ==
    /\ Pending(rente_out, "ges_rente_nach_grundr_m")
    /\ Computed(rente_out, "ges_rente_vor_grundr_m")
    /\ rente_out' = [rente_out EXCEPT !["ges_rente_nach_grundr_m"] =
           Val(ges_rente_nach_grundr_m(rente_out["ges_rente_vor_grundr_m"].v,
                                       rente_in.grundr_zuschlag_m, rente_in.rentner))]
    /\ UNCHANGED <<rente_in, exceptRente>>

NextRente ==
    \/ CalcRegelaltersgrenze
    \/ CalcGrenzeAltersrente
    \/ CalcZugangsfaktor
    \/ CalcVorGrundr
    \/ CalcNachGrundr

SpecRente == InitRente /\ [][NextRente]_vars

\* ------------------------------------------------------ rente.py: claims
\* What the claims speak about, read off the state.
RenteDiff ==
    720 * (rente_in.jahr_renteneintr - rente_in.geburtsjahr)
        - rente_out["ges_rente_regelaltersgrenze"].v
RenteEarlyRate ==
    rente_in.ges_rente_params.zugangsfaktor_veraenderung_pro_jahr.vorzeitiger_renteneintritt
RenteLateRate ==
    rente_in.ges_rente_params.zugangsfaktor_veraenderung_pro_jahr.spaeterer_renteneintritt
RenteRawFaktor ==
    One + RenteDiff * (IF RenteDiff < 0 THEN RenteEarlyRate ELSE RenteLateRate)

\* C1 (retirement gate): for a person who is not retired, the Zugangsfaktor,
\* the claim before the Grundrente supplement and the claim including it are
\* each exactly 0 once computed, whatever the other inputs are.
C1_RetirementGate ==
    ~rente_in.rentner =>
        \A n \in {"ges_rente_zugangsfaktor", "ges_rente_vor_grundr_m",
                  "ges_rente_nach_grundr_m"} :
            ~Pending(rente_out, n) => rente_out[n] = Val(0)

\* C1 witness: a person not retired with non-zero earning points, pension
\* value and supplement, all three quantities computed.
C1_Witness ==
    /\ ~rente_in.rentner
    /\ rente_in.entgeltp_update > 0
    /\ rente_in.rentenwert > 0
    /\ rente_in.grundr_zuschlag_m > 0
    /\ Computed(rente_out, "ges_rente_zugangsfaktor")
    /\ Computed(rente_out, "ges_rente_vor_grundr_m")
    /\ Computed(rente_out, "ges_rente_nach_grundr_m")

\* C4 (access factor bounds): the Zugangsfaktor of a retired person is never
\* negative, and a raw value 1 + diff * rate below 0 is returned as exactly 0.
C4_AccessFactorBounds ==
    (rente_in.rentner /\ ~Pending(rente_out, "ges_rente_zugangsfaktor")) =>
        /\ Computed(rente_out, "ges_rente_zugangsfaktor")
        /\ rente_out["ges_rente_zugangsfaktor"].v >= 0
        /\ RenteRawFaktor < 0 => rente_out["ges_rente_zugangsfaktor"].v = 0

\* C4 witness: a retired person whose raw factor is negative.
C4_Witness ==
    /\ rente_in.rentner
    /\ Computed(rente_out, "ges_rente_zugangsfaktor")
    /\ RenteRawFaktor < 0

\* C8 (full eligibility age): ges_rente_grenze_altersrente returns a value
\* for every birth year, birth month and sex; for a female person it is
\* min(regular eligibility age, women's-track age at birth_year +
\* birth_month / 12), for any other person the regular eligibility age, so
\* it never exceeds the regular eligibility age.
C8_FullEligibilityAge ==
    ~Pending(rente_out, "ges_rente_grenze_altersrente") =>
        LET regelrente == piecewise_polynomial(12 * rente_in.geburtsjahr,
                              rente_in.ges_rente_params.regelaltersgrenze)
            frauen == piecewise_polynomial(
                          12 * rente_in.geburtsjahr + rente_in.geburtsmonat,
                          rente_in.ges_rente_params.altersrente_fuer_frauen)
            got == rente_out["ges_rente_grenze_altersrente"]
        IN  /\ got.st = "ok"
            /\ got.v = IF rente_in.geschlecht # 0
                       THEN Min(regelrente, frauen)
                       ELSE regelrente
            /\ got.v <= regelrente

freibetrag_vermoegen_grundsicherung_hh(haushaltsgroesse_hh) ==
    [h \in DOMAIN haushaltsgroesse_hh |-> 5000 * haushaltsgroesse_hh[h]]

\* Mutant: wealth equal to the exemption still passes the test.
unter_vermoegens_freibetrag_grundsicherung_hh_leq(vermoegen_hh, freibetrag_vermoegen_grundsicherung_hh_) ==
    [h \in DOMAIN vermoegen_hh |->
        vermoegen_hh[h] <= freibetrag_vermoegen_grundsicherung_hh_[h]]

unter_vermoegens_freibetrag_grundsicherung_hh(vermoegen_hh, freibetrag_vermoegen_grundsicherung_hh_) ==
    [h \in DOMAIN vermoegen_hh |->
        vermoegen_hh[h] < freibetrag_vermoegen_grundsicherung_hh_[h]]

\* out = regelbedarf_m_hh binds the caller's object, so out.loc[...] = 0
\* writes into it: the result and the argument are the same series.
regelbedarf_m_grundsicherung_vermoegens_check_hh(regelbedarf_m_hh_, unter_vermoegens_freibetrag_grundsicherung_hh_) ==
    LET out == [h \in DOMAIN regelbedarf_m_hh_ |->
                   IF ~unter_vermoegens_freibetrag_grundsicherung_hh_[h]
                   THEN 0
                   ELSE regelbedarf_m_hh_[h]]
    IN  [out |-> out, regelbedarf_m_hh |-> out]

\* Households of the wealth-test run.
HH == {1, 2}
\* household sizes 1 .. MaxSize
MaxSize == 2

VermInputs ==
    [regelbedarf_m_hh : [HH -> {400, 800}],
     vermoegen_hh : [HH -> {4000, 5000, 9000, 10000}],
     haushaltsgroesse_hh : [HH -> 1..MaxSize]]

VermNames == {"freibetrag_vermoegen_grundsicherung_hh",
              "unter_vermoegens_freibetrag_grundsicherung_hh",
              "regelbedarf_m_grundsicherung_vermoegens_check_hh"}

InitVerm ==
    /\ verm_in \in VermInputs
    /\ regelbedarf_m_hh = verm_in.regelbedarf_m_hh
    /\ verm_out = [n \in VermNames |-> NotComputed]
    /\ IdleRente /\ IdleGrund /\ IdleEink /\ IdleVors /\ IdleEntgeltp

CalcFreibetragVermoegen ==
    /\ Pending(verm_out, "freibetrag_vermoegen_grundsicherung_hh")
    /\ verm_out' = [verm_out EXCEPT !["freibetrag_vermoegen_grundsicherung_hh"] =
           Val(freibetrag_vermoegen_grundsicherung_hh(verm_in.haushaltsgroesse_hh))]
    /\ UNCHANGED <<verm_in, regelbedarf_m_hh, exceptVerm>>

CalcUnterVermoegensFreibetrag ==
    /\ Pending(verm_out, "unter_vermoegens_freibetrag_grundsicherung_hh")
    /\ Computed(verm_out, "freibetrag_vermoegen_grundsicherung_hh")
    /\ verm_out' = [verm_out EXCEPT !["unter_vermoegens_freibetrag_grundsicherung_hh"] =
           Val(unter_vermoegens_freibetrag_grundsicherung_hh(
                   verm_in.vermoegen_hh,
                   verm_out["freibetrag_vermoegen_grundsicherung_hh"].v))]
    /\ UNCHANGED <<verm_in, regelbedarf_m_hh, exceptVerm>>

CalcVermoegensCheck ==
    /\ Pending(verm_out, "regelbedarf_m_grundsicherung_vermoegens_check_hh")
    /\ Computed(verm_out, "unter_vermoegens_freibetrag_grundsicherung_hh")
    /\ LET r == regelbedarf_m_grundsicherung_vermoegens_check_hh(
                    regelbedarf_m_hh,
                    verm_out["unter_vermoegens_freibetrag_grundsicherung_hh"].v)
       IN  /\ verm_out' = [verm_out EXCEPT
                  !["regelbedarf_m_grundsicherung_vermoegens_check_hh"] = Val(r.out)]
           /\ regelbedarf_m_hh' = r.regelbedarf_m_hh
    /\ UNCHANGED <<verm_in, exceptVerm>>

NextVerm ==
    \/ CalcFreibetragVermoegen
    \/ CalcUnterVermoegensFreibetrag
    \/ CalcVermoegensCheck

SpecVerm == InitVerm /\ [][NextVerm]_vars

\* ------------------------------- grundsicherung.py: income and priority
\* Mutant: the Kindergeld is not subtracted.
grundsicherung_m_minus_eink_hh_ohne_kindergeld(regelbedarf_m_grundsicherung_vermoegens_check_hh_, kindergeld_m_hh, unterhaltsvors_m_hh, grundsicherung_eink_hh_) ==
    [h \in DOMAIN regelbedarf_m_grundsicherung_vermoegens_check_hh_ |->
        regelbedarf_m_grundsicherung_vermoegens_check_hh_[h]
            - grundsicherung_eink_hh_[h]
            - unterhaltsvors_m_hh[h]]

grundsicherung_m_minus_eink_hh(regelbedarf_m_grundsicherung_vermoegens_check_hh_, kindergeld_m_hh, unterhaltsvors_m_hh, grundsicherung_eink_hh_) ==
    [h \in DOMAIN regelbedarf_m_grundsicherung_vermoegens_check_hh_ |->
        regelbedarf_m_grundsicherung_vermoegens_check_hh_[h]
            - grundsicherung_eink_hh_[h]
            - unterhaltsvors_m_hh[h]
            - kindergeld_m_hh[h]]

\* Mutant: the gate on adults versus retirees is missing.
grundsicherung_m_hh_ohne_rentner_gate(grundsicherung_m_minus_eink_hh_, wohngeld_vorrang_hh, kinderzuschlag_vorrang_hh, wohngeld_kinderzuschlag_vorrang_hh, regelaltersgrenze, alter, anz_erwachsene_hh, anz_rentner_hh) ==
    LET cond == [h \in DOMAIN grundsicherung_m_minus_eink_hh_ |->
                    \/ wohngeld_vorrang_hh[h]
                    \/ kinderzuschlag_vorrang_hh[h]
                    \/ wohngeld_kinderzuschlag_vorrang_hh[h]
                    \/ alter[h] < regelaltersgrenze[h]]
    IN  [out |-> [h \in DOMAIN grundsicherung_m_minus_eink_hh_ |->
                     IF cond[h] THEN 0
                     ELSE Max(grundsicherung_m_minus_eink_hh_[h], 0)],
         grundsicherung_m_minus_eink_hh |-> grundsicherung_m_minus_eink_hh_]

\* .clip(lower=0) returns a new series, so out.loc[cond] = 0 writes into
\* that copy and the argument keeps its content.
grundsicherung_m_hh(grundsicherung_m_minus_eink_hh_, wohngeld_vorrang_hh, kinderzuschlag_vorrang_hh, wohngeld_kinderzuschlag_vorrang_hh, regelaltersgrenze, alter, anz_erwachsene_hh, anz_rentner_hh) ==
    LET clipped == [h \in DOMAIN grundsicherung_m_minus_eink_hh_ |->
                       Max(grundsicherung_m_minus_eink_hh_[h], 0)]
        cond == [h \in DOMAIN grundsicherung_m_minus_eink_hh_ |->
                    \/ wohngeld_vorrang_hh[h]
                    \/ kinderzuschlag_vorrang_hh[h]
                    \/ wohngeld_kinderzuschlag_vorrang_hh[h]
                    \/ alter[h] < regelaltersgrenze[h]
                    \/ anz_erwachsene_hh[h] # anz_rentner_hh[h]]
        out == [h \in DOMAIN clipped |-> IF cond[h] THEN 0 ELSE clipped[h]]
    IN  [out |-> out,
         grundsicherung_m_minus_eink_hh |-> grundsicherung_m_minus_eink_hh_]

\* adults and retirees per household 1 .. MaxAdults
MaxAdults == 2

GrundInputs ==
    [regelbedarf_m_grundsicherung_vermoegens_check_hh : [HH -> {0, 400, 800}],
     grundsicherung_eink_hh : [HH -> {0, 900}],
     kindergeld_m_hh : [HH -> {350}],
     unterhaltsvors_m_hh : [HH -> {50}],
     wohngeld_vorrang_hh : [HH -> BOOLEAN],
     kinderzuschlag_vorrang_hh : [HH -> BOOLEAN],
     wohngeld_kinderzuschlag_vorrang_hh : [HH -> BOOLEAN],
     regelaltersgrenze : [HH -> {65}],
     alter : [HH -> {64, 65}],
     anz_erwachsene_hh : [HH -> 1..MaxAdults],
     anz_rentner_hh : [HH -> 1..MaxAdults]]

GrundNames == {"grundsicherung_m_minus_eink_hh", "grundsicherung_m_hh"}

InitGrund ==
    /\ grund_in \in GrundInputs
    /\ grund_out = [n \in GrundNames |-> NotComputed]
    /\ IdleRente /\ IdleVerm /\ IdleEink /\ IdleVors /\ IdleEntgeltp

CalcMinusEink ==
    /\ Pending(grund_out, "grundsicherung_m_minus_eink_hh")
    /\ grund_out' = [grund_out EXCEPT !["grundsicherung_m_minus_eink_hh"] =
           Val(grundsicherung_m_minus_eink_hh(
                   grund_in.regelbedarf_m_grundsicherung_vermoegens_check_hh,
                   grund_in.kindergeld_m_hh, grund_in.unterhaltsvors_m_hh,
                   grund_in.grundsicherung_eink_hh))]
    /\ UNCHANGED <<grund_in, exceptGrund>>

CalcGrundsicherung ==
    /\ Pending(grund_out, "grundsicherung_m_hh")
    /\ Computed(grund_out, "grundsicherung_m_minus_eink_hh")
    /\ LET r == grundsicherung_m_hh(
                    grund_out["grundsicherung_m_minus_eink_hh"].v,
                    grund_in.wohngeld_vorrang_hh, grund_in.kinderzuschlag_vorrang_hh,
                    grund_in.wohngeld_kinderzuschlag_vorrang_hh,
                    grund_in.regelaltersgrenze, grund_in.alter,
                    grund_in.anz_erwachsene_hh, grund_in.anz_rentner_hh)
       IN  grund_out' = [grund_out EXCEPT
               !["grundsicherung_m_hh"] = Val(r.out),
               !["grundsicherung_m_minus_eink_hh"] =
                   Val(r.grundsicherung_m_minus_eink_hh)]
    /\ UNCHANGED <<grund_in, exceptGrund>>

NextGrund ==
    \/ CalcMinusEink
    \/ CalcGrundsicherung

SpecGrund == InitGrund /\ [][NextGrund]_vars


\* --------------------------------------------- grundsicherung.py: claims
\* A component takes part in the run (its variables are not idle).
ActiveVerm == DOMAIN verm_out # {}
ActiveGrund == DOMAIN grund_out # {}

\* Basic need after the wealth test minus income, Kindergeld and
\* Unterhaltsvorschuss of household h, from the caller's inputs.
MinusEinkRaw(h) ==
    grund_in.regelbedarf_m_grundsicherung_vermoegens_check_hh[h]
        - grund_in.grundsicherung_eink_hh[h]
        - grund_in.kindergeld_m_hh[h]
        - grund_in.unterhaltsvors_m_hh[h]

\* One of the five gates of household h is true.
GrundGate(h) ==
    \/ grund_in.wohngeld_vorrang_hh[h]
    \/ grund_in.kinderzuschlag_vorrang_hh[h]
    \/ grund_in.wohngeld_kinderzuschlag_vorrang_hh[h]
    \/ grund_in.alter[h] < grund_in.regelaltersgrenze[h]
    \/ grund_in.anz_erwachsene_hh[h] # grund_in.anz_rentner_hh[h]

\* C2 (priority zeroing): grundsicherung_m_hh is exactly 0 for a household
\* with at least one of the five gates true, whatever its basic need minus
\* income is, and that input clamped below at 0 for a household with none.
C2_PriorityZeroing ==
    Computed(grund_out, "grundsicherung_m_hh") =>
        \A h \in HH :
            LET got == grund_out["grundsicherung_m_hh"].v[h]
                arg == grund_out["grundsicherung_m_minus_eink_hh"].v[h]
            IN  /\ GrundGate(h) => got = 0
                /\ ~GrundGate(h) => got = Max(arg, 0)

\* C2 witness: household 1 has a positive basic need minus income and only
\* the adults-versus-retirees gate true, household 2 has the same amount
\* and no gate true and keeps it.
C2_Witness ==
    /\ Computed(grund_out, "grundsicherung_m_hh")
    /\ grund_out["grundsicherung_m_minus_eink_hh"].v[1] > 0
    /\ grund_out["grundsicherung_m_minus_eink_hh"].v[2] > 0
    /\ grund_in.anz_erwachsene_hh[1] # grund_in.anz_rentner_hh[1]
    /\ ~grund_in.wohngeld_vorrang_hh[1]
    /\ ~grund_in.kinderzuschlag_vorrang_hh[1]
    /\ ~grund_in.wohngeld_kinderzuschlag_vorrang_hh[1]
    /\ grund_in.alter[1] >= grund_in.regelaltersgrenze[1]
    /\ ~GrundGate(2)
    /\ grund_out["grundsicherung_m_hh"].v[1] = 0
    /\ grund_out["grundsicherung_m_hh"].v[2] > 0

C6_MinusEinkClamped ==
    Computed(grund_out, "grundsicherung_m_minus_eink_hh") =>
        \A h \in HH :
            /\ grund_out["grundsicherung_m_minus_eink_hh"].v[h] >= 0
            /\ grund_out["grundsicherung_m_minus_eink_hh"].v[h]
                   = Max(MinusEinkRaw(h), 0)

\* C6 as amended: grundsicherung_m_minus_eink_hh returns the plain
\* difference, negative when the subtractions exceed the basic need; the
\* clamp is the first step of grundsicherung_m_hh, whose result is never
\* negative and is 0 for such a household.
C6_MinusEinkThenClamp ==
    /\ Computed(grund_out, "grundsicherung_m_minus_eink_hh") =>
           \A h \in HH :
               grund_out["grundsicherung_m_minus_eink_hh"].v[h] = MinusEinkRaw(h)
    /\ Computed(grund_out, "grundsicherung_m_hh") =>
           \A h \in HH :
               /\ grund_out["grundsicherung_m_hh"].v[h] >= 0
               /\ MinusEinkRaw(h) < 0 => grund_out["grundsicherung_m_hh"].v[h] = 0

\* C6 witness: a household without any gate whose subtractions exceed its
\* basic need: the difference is negative and the benefit is 0.
C6_Witness ==
    /\ Computed(grund_out, "grundsicherung_m_hh")
    /\ ~GrundGate(1)
    /\ grund_in.regelbedarf_m_grundsicherung_vermoegens_check_hh[1] > 0
    /\ grund_out["grundsicherung_m_minus_eink_hh"].v[1] < 0
    /\ grund_out["grundsicherung_m_hh"].v[1] = 0

\* C7 (inputs are read-only): the caller's regelbedarf_m_hh holds the values
\* it was built with, also after the wealth test has run, and the
\* grundsicherung_m_minus_eink_hh series holds the values it was computed
\* with, also after grundsicherung_m_hh has run.
C7_InputsReadOnly ==
    /\ ActiveVerm => regelbedarf_m_hh = verm_in.regelbedarf_m_hh
    /\ (ActiveGrund /\ Computed(grund_out, "grundsicherung_m_minus_eink_hh")) =>
           \A h \in HH :
               grund_out["grundsicherung_m_minus_eink_hh"].v[h] = MinusEinkRaw(h)

\* --------------------------------- grundsicherung.py: countable income
\* Amounts are whole Euro; the yearly taxes of a tax unit are multiples of
\* 24 Euro, so that the share per adult and month is exact.

\* Series.replace(mapping): every value that is a label of mapping's index
\* becomes mapping's value at that label, all values at once.
series_replace(series, mapping) ==
    [p \in DOMAIN series |->
        IF series[p] \in DOMAIN mapping THEN mapping[series[p]] ELSE series[p]]

\* Mutant: the tax shares are aligned by position, not looked up by tu_id.
grundsicherung_eink_by_position(arbeitsl_geld_2_brutto_eink, eink_st_tu, tu_id, soli_st_tu, anz_erwachsene_tu, sozialv_beitr_m, eink_anr_frei_grundsicherung, freibetrag_grundsicherung_grundrente) ==
    [p \in DOMAIN arbeitsl_geld_2_brutto_eink |->
        Max(arbeitsl_geld_2_brutto_eink[p]
                - (eink_st_tu[p] \div anz_erwachsene_tu[p]) \div 12
                - (soli_st_tu[p] \div anz_erwachsene_tu[p]) \div 12
                - sozialv_beitr_m[p]
                - eink_anr_frei_grundsicherung[p]
                - freibetrag_grundsicherung_grundrente[p], 0)]

grundsicherung_eink(arbeitsl_geld_2_brutto_eink, eink_st_tu, tu_id, soli_st_tu, anz_erwachsene_tu, sozialv_beitr_m, eink_anr_frei_grundsicherung, freibetrag_grundsicherung_grundrente) ==
    LET eink_st_anteil ==
            series_replace(tu_id, [t \in DOMAIN eink_st_tu |->
                (eink_st_tu[t] \div anz_erwachsene_tu[t]) \div 12])
        soli_st_anteil ==
            series_replace(tu_id, [t \in DOMAIN soli_st_tu |->
                (soli_st_tu[t] \div anz_erwachsene_tu[t]) \div 12])
    IN  [p \in DOMAIN arbeitsl_geld_2_brutto_eink |->
            Max(arbeitsl_geld_2_brutto_eink[p]
                    - eink_st_anteil[p]
                    - soli_st_anteil[p]
                    - sozialv_beitr_m[p]
                    - eink_anr_frei_grundsicherung[p]
                    - freibetrag_grundsicherung_grundrente[p], 0)]

\* Sum of series over the labels in rows.
RECURSIVE SeriesSum(_, _)
SeriesSum(series, rows) ==
    IF rows = {} THEN 0
    ELSE LET r == CHOOSE x \in rows : TRUE
         IN  series[r] + SeriesSum(series, rows \ {r})

\* groupby(hh_id).sum(): one row per household that has a member.
grundsicherung_eink_hh(grundsicherung_eink_, hh_id) ==
    [h \in {hh_id[p] : p \in DOMAIN hh_id} |->
        SeriesSum(grundsicherung_eink_, {p \in DOMAIN hh_id : hh_id[p] = h})]

\* Persons and tax units of the countable-income run.
Persons == {1, 2}
TU == {1, 2}
\* yearly income tax of a tax unit: 0, 2400, .. 2400 * MaxTaxSteps
MaxTaxSteps == 1

EinkInputs ==
    [arbeitsl_geld_2_brutto_eink : [Persons -> {100, 1000}],
     eink_st_tu : [TU -> {2400 * k : k \in 0..MaxTaxSteps}],
     soli_st_tu : [TU -> {0, 240}],
     tu_id : [Persons -> TU],
     hh_id : [Persons -> HH],
     anz_erwachsene_tu : [TU -> {1, 2}],
     sozialv_beitr_m : [Persons -> {0, 100}],
     eink_anr_frei_grundsicherung : [Persons -> {50}],
     freibetrag_grundsicherung_grundrente : [Persons -> {30}]]

EinkNames == {"grundsicherung_eink", "grundsicherung_eink_hh"}

InitEink ==
    /\ eink_in \in EinkInputs
    /\ eink_out = [n \in EinkNames |-> NotComputed]
    /\ IdleRente /\ IdleVerm /\ IdleGrund /\ IdleVors /\ IdleEntgeltp

CalcGrundsicherungEink ==
    /\ Pending(eink_out, "grundsicherung_eink")
    /\ eink_out' = [eink_out EXCEPT !["grundsicherung_eink"] =
           Val(grundsicherung_eink(
                   eink_in.arbeitsl_geld_2_brutto_eink, eink_in.eink_st_tu,
                   eink_in.tu_id, eink_in.soli_st_tu, eink_in.anz_erwachsene_tu,
                   eink_in.sozialv_beitr_m, eink_in.eink_anr_frei_grundsicherung,
                   eink_in.freibetrag_grundsicherung_grundrente))]
    /\ UNCHANGED <<eink_in, exceptEink>>

CalcGrundsicherungEinkHh ==
    /\ Pending(eink_out, "grundsicherung_eink_hh")
    /\ Computed(eink_out, "grundsicherung_eink")
    /\ eink_out' = [eink_out EXCEPT !["grundsicherung_eink_hh"] =
           Val(grundsicherung_eink_hh(eink_out["grundsicherung_eink"].v,
                                      eink_in.hh_id))]
    /\ UNCHANGED <<eink_in, exceptEink>>

NextEink ==
    \/ CalcGrundsicherungEink
    \/ CalcGrundsicherungEinkHh

SpecEink == InitEink /\ [][NextEink]_vars

\* C9 (countable income): for every person grundsicherung_eink is max(0,
\* gross transfer income - income tax of the person's own tax unit / adult
\* count / 12 - solidarity surcharge of that tax unit / adult count / 12
\* - social insurance contributions - exempt wage share - Grundrente
\* exemption), and so never negative.
C9_CountableIncome ==
    Computed(eink_out, "grundsicherung_eink") =>
        \A p \in Persons :
            LET t == eink_in.tu_id[p]
                got == eink_out["grundsicherung_eink"].v[p]
            IN  /\ got >= 0
                /\ got = Max(0, eink_in.arbeitsl_geld_2_brutto_eink[p]
                        - (eink_in.eink_st_tu[t] \div eink_in.anz_erwachsene_tu[t]) \div 12
                        - (eink_in.soli_st_tu[t] \div eink_in.anz_erwachsene_tu[t]) \div 12
                        - eink_in.sozialv_beitr_m[p]
                        - eink_in.eink_anr_frei_grundsicherung[p]
                        - eink_in.freibetrag_grundsicherung_grundrente[p])

\* C9 witness: person 1 belongs to tax unit 2 (two adults, income tax 2400,
\* surcharge 240) while tax unit 1 pays nothing, and has 1000 - 100 - 10
\* - 100 - 50 - 30 = 710; person 2 in tax unit 1 has less to begin with
\* than is subtracted and is clamped to 0.
C9_Witness ==
    /\ Computed(eink_out, "grundsicherung_eink")
    /\ eink_in.tu_id[1] = 2 /\ eink_in.tu_id[2] = 1
    /\ eink_in.eink_st_tu[1] = 0 /\ eink_in.soli_st_tu[1] = 0
    /\ eink_in.eink_st_tu[2] = 2400 /\ eink_in.soli_st_tu[2] = 240
    /\ eink_in.anz_erwachsene_tu[2] = 2
    /\ eink_in.arbeitsl_geld_2_brutto_eink[1] = 1000
    /\ eink_in.sozialv_beitr_m[1] = 100
    /\ eink_out["grundsicherung_eink"].v[1] = 710
    /\ eink_in.arbeitsl_geld_2_brutto_eink[2] = 100
    /\ eink_in.sozialv_beitr_m[2] = 100
    /\ eink_out["grundsicherung_eink"].v[2] = 0

\* -------------------------------------------------------- vorsorgeaufw.py
\* Amounts are held in 1/400 Euro and the share parameters (Kuerzung,
\* Einfuehrungsfaktor, Minderung) in whole percent: with inputs in whole
\* Euro every product and every division by 2, by the number of adults
\* (1 or 2) and by 100 below is exact.
Eur(x) == 400 * x

vorsorgeaufw_alter_tu(ges_rentenv_beitr_m_tu, priv_rentenv_beitr_m_tu, anz_erwachsene_tu, eink_st_abzuege_params) ==
    LET out == ((eink_st_abzuege_params.einfuehrungsfaktor_vorsorgeaufw_alter_ab_2005
                     * (2 * ges_rentenv_beitr_m_tu + priv_rentenv_beitr_m_tu)) \div 100
                - ges_rentenv_beitr_m_tu) * 12
        max_value == anz_erwachsene_tu * eink_st_abzuege_params.vorsorge_altersaufw_max
    IN  Min(out, max_value)

_vorsorge_alternative_tu_ab_2005_bis_2009(vorsorgeaufw_alter_tu_, ges_krankenv_beitr_m_tu, arbeitsl_v_beitr_m_tu, ges_pflegev_beitr_m_tu, anz_erwachsene_tu, eink_st_abzuege_params) ==
    LET sum_vorsorge == 12 * (ges_krankenv_beitr_m_tu + arbeitsl_v_beitr_m_tu
                                  + ges_pflegev_beitr_m_tu)
        max_value == anz_erwachsene_tu * eink_st_abzuege_params.vorsorge_sonstige_aufw_max
    IN  Min(sum_vorsorge, max_value) + vorsorgeaufw_alter_tu_

vorsorgeaufw_tu_ab_2005_bis_2009(_vorsorge_alternative_tu_ab_2005_bis_2009_, vorsorgeaufw_tu_bis_2004_) ==
    Max(vorsorgeaufw_tu_bis_2004_, _vorsorge_alternative_tu_ab_2005_bis_2009_)

\* Mutant: the 2010 rules are taken to be at least as beneficial as the
\* older ones, and the comparison is dropped.
vorsorgeaufw_tu_ab_2010_bis_2019_dominance(vorsorgeaufw_tu_bis_2004_, vorsorgeaufw_tu_ab_2020_) ==
    vorsorgeaufw_tu_ab_2020_

vorsorgeaufw_tu_ab_2010_bis_2019(vorsorgeaufw_tu_bis_2004_, vorsorgeaufw_tu_ab_2020_) ==
    Max(vorsorgeaufw_tu_bis_2004_, vorsorgeaufw_tu_ab_2020_)

\* Mutant: the Basiskrankenversicherung is not compared with the capped sum,
\* so that it is cut at vorsorge_sonstige_aufw_max like every other item.
vorsorgeaufw_tu_ab_2020_ohne_basiskrankenv(vorsorgeaufw_alter_tu_, ges_pflegev_beitr_m_tu, ges_krankenv_beitr_m_tu, arbeitsl_v_beitr_m_tu, anz_erwachsene_tu, eink_st_abzuege_params) ==
    LET sonst_vors_max ==
            eink_st_abzuege_params.vorsorge_sonstige_aufw_max * anz_erwachsene_tu
        sonst_vors_before_basiskrankenv ==
            Min(12 * (arbeitsl_v_beitr_m_tu + ges_pflegev_beitr_m_tu
                          + ges_krankenv_beitr_m_tu),
                sonst_vors_max)
    IN  sonst_vors_before_basiskrankenv + vorsorgeaufw_alter_tu_

vorsorgeaufw_tu_ab_2020(vorsorgeaufw_alter_tu_, ges_pflegev_beitr_m_tu, ges_krankenv_beitr_m_tu, arbeitsl_v_beitr_m_tu, anz_erwachsene_tu, eink_st_abzuege_params) ==
    LET basiskrankenversicherung ==
            12 * (ges_pflegev_beitr_m_tu
                  + ((100 - eink_st_abzuege_params.vorsorge_kranken_minderung)
                         * ges_krankenv_beitr_m_tu) \div 100)
        sonst_vors_max ==
            eink_st_abzuege_params.vorsorge_sonstige_aufw_max * anz_erwachsene_tu
        sonst_vors_before_basiskrankenv ==
            Min(12 * (arbeitsl_v_beitr_m_tu + ges_pflegev_beitr_m_tu
                          + ges_krankenv_beitr_m_tu),
                sonst_vors_max)
        sonst_vors == Max(basiskrankenversicherung, sonst_vors_before_basiskrankenv)
    IN  sonst_vors + vorsorgeaufw_alter_tu_

vorsorgeaufw_tu_bis_2004(_vorsorgeaufw_vom_lohn_tu_bis_2004_, ges_krankenv_beitr_m_tu, ges_rentenv_beitr_m_tu, anz_erwachsene_tu, eink_st_abzuege_params) ==
    LET grundhoechstbetrag == eink_st_abzuege_params.vorsorge_2004_grundhoechstbetrag
        multiplikator1 ==
            Max(12 * (ges_rentenv_beitr_m_tu + ges_krankenv_beitr_m_tu)
                    - _vorsorgeaufw_vom_lohn_tu_bis_2004_, 0)
        item_1 == multiplikator1 \div anz_erwachsene_tu
        multiplikator2 == IF item_1 > grundhoechstbetrag
                          THEN grundhoechstbetrag
                          ELSE item_1
        item_2 == multiplikator2 \div anz_erwachsene_tu
        hoechstgrenze_item3 == anz_erwachsene_tu * grundhoechstbetrag
        item_3 == IF (item_1 - item_2) > hoechstgrenze_item3
                  THEN hoechstgrenze_item3 \div 2
                  ELSE (item_1 - item_2) \div 2
    IN  _vorsorgeaufw_vom_lohn_tu_bis_2004_ + item_2 + item_3

\* Mutant: the reduced Vorwegabzug is returned without max(out, 0.0).
_vorsorgeaufw_vom_lohn_tu_bis_2004_unclamped(bruttolohn_m_tu, gemeinsam_veranlagt_tu, eink_st_abzuege_params) ==
    LET kuerzung == (eink_st_abzuege_params.vorsorge2004_kuerzung_vorwegabzug
                         * 12 * bruttolohn_m_tu) \div 100
    IN  IF gemeinsam_veranlagt_tu
        THEN (2 * eink_st_abzuege_params.vorsorge2004_vorwegabzug - kuerzung) \div 2
        ELSE eink_st_abzuege_params.vorsorge2004_vorwegabzug - kuerzung

_vorsorgeaufw_vom_lohn_tu_bis_2004(bruttolohn_m_tu, gemeinsam_veranlagt_tu, eink_st_abzuege_params) ==
    LET kuerzung == (eink_st_abzuege_params.vorsorge2004_kuerzung_vorwegabzug
                         * 12 * bruttolohn_m_tu) \div 100
        out == IF gemeinsam_veranlagt_tu
               THEN (2 * eink_st_abzuege_params.vorsorge2004_vorwegabzug - kuerzung) \div 2
               ELSE eink_st_abzuege_params.vorsorge2004_vorwegabzug - kuerzung
    IN  Max(out, 0)

\* ------------------------------------------------ vorsorgeaufw.py: inputs
\* monthly gross wage of the tax unit: 0, 1000, .. 1000 * MaxWage Euro
MaxWage == 2

\* eink_st_abzuege_params of a year in 2005-2009 and of a year in 2010-2019.
AbzuegeParams2005 ==
    [einfuehrungsfaktor_vorsorgeaufw_alter_ab_2005 |-> 60,
     vorsorge_altersaufw_max |-> Eur(20000),
     vorsorge_sonstige_aufw_max |-> Eur(1500),
     vorsorge_kranken_minderung |-> 4,
     vorsorge_2004_grundhoechstbetrag |-> Eur(1334),
     vorsorge2004_vorwegabzug |-> Eur(3068),
     vorsorge2004_kuerzung_vorwegabzug |-> 16]
AbzuegeParams2015 ==
    [einfuehrungsfaktor_vorsorgeaufw_alter_ab_2005 |-> 80,
     vorsorge_altersaufw_max |-> Eur(22172),
     vorsorge_sonstige_aufw_max |-> Eur(1900),
     vorsorge_kranken_minderung |-> 4,
     vorsorge_2004_grundhoechstbetrag |-> Eur(1334),
     vorsorge2004_vorwegabzug |-> Eur(3068),
     vorsorge2004_kuerzung_vorwegabzug |-> 16]

VorsInputs ==
    [bruttolohn_m_tu : {Eur(1000 * k) : k \in 0..MaxWage},
     gemeinsam_veranlagt_tu : BOOLEAN,
     anz_erwachsene_tu : {1, 2},
     ges_krankenv_beitr_m_tu : {Eur(0), Eur(160), Eur(400)},
     ges_rentenv_beitr_m_tu : {Eur(0), Eur(190)},
     priv_rentenv_beitr_m_tu : {Eur(0), Eur(100), Eur(3000)},
     ges_pflegev_beitr_m_tu : {Eur(0), Eur(30)},
     arbeitsl_v_beitr_m_tu : {Eur(0), Eur(25)},
     eink_st_abzuege_params : {AbzuegeParams2005, AbzuegeParams2015}]

VorsNames == {"_vorsorgeaufw_vom_lohn_tu_bis_2004", "vorsorgeaufw_tu_bis_2004",
              "vorsorgeaufw_alter_tu", "_vorsorge_alternative_tu_ab_2005_bis_2009",
              "vorsorgeaufw_tu_ab_2020", "vorsorgeaufw_tu_ab_2005_bis_2009",
              "vorsorgeaufw_tu_ab_2010_bis_2019"}

InitVors ==
    /\ vors_in \in VorsInputs
    /\ vors_out = [n \in VorsNames |-> NotComputed]
    /\ IdleRente /\ IdleVerm /\ IdleGrund /\ IdleEink /\ IdleEntgeltp

CalcVorsorgeVomLohn ==
    /\ Pending(vors_out, "_vorsorgeaufw_vom_lohn_tu_bis_2004")
    /\ vors_out' = [vors_out EXCEPT !["_vorsorgeaufw_vom_lohn_tu_bis_2004"] =
           Val(_vorsorgeaufw_vom_lohn_tu_bis_2004(
                   vors_in.bruttolohn_m_tu, vors_in.gemeinsam_veranlagt_tu,
                   vors_in.eink_st_abzuege_params))]
    /\ UNCHANGED <<vors_in, exceptVors>>

CalcVorsorgeBis2004 ==
    /\ Pending(vors_out, "vorsorgeaufw_tu_bis_2004")
    /\ Computed(vors_out, "_vorsorgeaufw_vom_lohn_tu_bis_2004")
    /\ vors_out' = [vors_out EXCEPT !["vorsorgeaufw_tu_bis_2004"] =
           Val(vorsorgeaufw_tu_bis_2004(
                   vors_out["_vorsorgeaufw_vom_lohn_tu_bis_2004"].v,
                   vors_in.ges_krankenv_beitr_m_tu, vors_in.ges_rentenv_beitr_m_tu,
                   vors_in.anz_erwachsene_tu, vors_in.eink_st_abzuege_params))]
    /\ UNCHANGED <<vors_in, exceptVors>>

CalcVorsorgeAlter ==
    /\ Pending(vors_out, "vorsorgeaufw_alter_tu")
    /\ vors_out' = [vors_out EXCEPT !["vorsorgeaufw_alter_tu"] =
           Val(vorsorgeaufw_alter_tu(
                   vors_in.ges_rentenv_beitr_m_tu, vors_in.priv_rentenv_beitr_m_tu,
                   vors_in.anz_erwachsene_tu, vors_in.eink_st_abzuege_params))]
    /\ UNCHANGED <<vors_in, exceptVors>>

CalcVorsorgeAlternative ==
    /\ Pending(vors_out, "_vorsorge_alternative_tu_ab_2005_bis_2009")
    /\ Computed(vors_out, "vorsorgeaufw_alter_tu")
    /\ vors_out' = [vors_out EXCEPT !["_vorsorge_alternative_tu_ab_2005_bis_2009"] =
           Val(_vorsorge_alternative_tu_ab_2005_bis_2009(
                   vors_out["vorsorgeaufw_alter_tu"].v,
                   vors_in.ges_krankenv_beitr_m_tu, vors_in.arbeitsl_v_beitr_m_tu,
                   vors_in.ges_pflegev_beitr_m_tu, vors_in.anz_erwachsene_tu,
                   vors_in.eink_st_abzuege_params))]
    /\ UNCHANGED <<vors_in, exceptVors>>

CalcVorsorgeAb2020 ==
    /\ Pending(vors_out, "vorsorgeaufw_tu_ab_2020")
    /\ Computed(vors_out, "vorsorgeaufw_alter_tu")
    /\ vors_out' = [vors_out EXCEPT !["vorsorgeaufw_tu_ab_2020"] =
           Val(vorsorgeaufw_tu_ab_2020(
                   vors_out["vorsorgeaufw_alter_tu"].v,
                   vors_in.ges_pflegev_beitr_m_tu, vors_in.ges_krankenv_beitr_m_tu,
                   vors_in.arbeitsl_v_beitr_m_tu, vors_in.anz_erwachsene_tu,
                   vors_in.eink_st_abzuege_params))]
    /\ UNCHANGED <<vors_in, exceptVors>>

CalcVorsorgeAb2005Bis2009 ==
    /\ Pending(vors_out, "vorsorgeaufw_tu_ab_2005_bis_2009")
    /\ Computed(vors_out, "_vorsorge_alternative_tu_ab_2005_bis_2009")
    /\ Computed(vors_out, "vorsorgeaufw_tu_bis_2004")
    /\ vors_out' = [vors_out EXCEPT !["vorsorgeaufw_tu_ab_2005_bis_2009"] =
           Val(vorsorgeaufw_tu_ab_2005_bis_2009(
                   vors_out["_vorsorge_alternative_tu_ab_2005_bis_2009"].v,
                   vors_out["vorsorgeaufw_tu_bis_2004"].v))]
    /\ UNCHANGED <<vors_in, exceptVors>>

CalcVorsorgeAb2010Bis2019 ==
    /\ Pending(vors_out, "vorsorgeaufw_tu_ab_2010_bis_2019")
    /\ Computed(vors_out, "vorsorgeaufw_tu_bis_2004")
    /\ Computed(vors_out, "vorsorgeaufw_tu_ab_2020")
    /\ vors_out' = [vors_out EXCEPT !["vorsorgeaufw_tu_ab_2010_bis_2019"] =
           Val(vorsorgeaufw_tu_ab_2010_bis_2019(
                   vors_out["vorsorgeaufw_tu_bis_2004"].v,
                   vors_out["vorsorgeaufw_tu_ab_2020"].v))]
    /\ UNCHANGED <<vors_in, exceptVors>>

NextVors ==
    \/ CalcVorsorgeVomLohn
    \/ CalcVorsorgeBis2004
    \/ CalcVorsorgeAlter
    \/ CalcVorsorgeAlternative
    \/ CalcVorsorgeAb2020
    \/ CalcVorsorgeAb2005Bis2009
    \/ CalcVorsorgeAb2010Bis2019

SpecVors == InitVors /\ [][NextVors]_vars

\* C5 (regime selectors): vorsorgeaufw_tu_ab_2010_bis_2019 is exactly the
\* larger of vorsorgeaufw_tu_bis_2004 and vorsorgeaufw_tu_ab_2020, and
\* vorsorgeaufw_tu_ab_2005_bis_2009 exactly the larger of
\* vorsorgeaufw_tu_bis_2004 and _vorsorge_alternative_tu_ab_2005_bis_2009,
\* so neither is ever below the deduction under the rules until 2004.
C5_SelectorsReturnMax ==
    /\ Computed(vors_out, "vorsorgeaufw_tu_ab_2010_bis_2019") =>
           LET got == vors_out["vorsorgeaufw_tu_ab_2010_bis_2019"].v
               old == vors_out["vorsorgeaufw_tu_bis_2004"].v
               new == vors_out["vorsorgeaufw_tu_ab_2020"].v
           IN  /\ got = IF old >= new THEN old ELSE new
               /\ got >= old
    /\ Computed(vors_out, "vorsorgeaufw_tu_ab_2005_bis_2009") =>
           LET got == vors_out["vorsorgeaufw_tu_ab_2005_bis_2009"].v
               old == vors_out["vorsorgeaufw_tu_bis_2004"].v
               alt == vors_out["_vorsorge_alternative_tu_ab_2005_bis_2009"].v
           IN  /\ got = IF old >= alt THEN old ELSE alt
               /\ got >= old

\* C5 witness: a tax unit whose deduction under the rules until 2004 is
\* larger than under either later rule, so that both selectors return it.
C5_Witness ==
    /\ Computed(vors_out, "vorsorgeaufw_tu_ab_2010_bis_2019")
    /\ Computed(vors_out, "vorsorgeaufw_tu_ab_2005_bis_2009")
    /\ vors_out["vorsorgeaufw_tu_bis_2004"].v > vors_out["vorsorgeaufw_tu_ab_2020"].v
    /\ vors_out["vorsorgeaufw_tu_bis_2004"].v
           > vors_out["_vorsorge_alternative_tu_ab_2005_bis_2009"].v
    /\ vors_out["vorsorgeaufw_tu_ab_2020"].v > 0
    /\ vors_out["vorsorgeaufw_tu_ab_2010_bis_2019"].v
           = vors_out["vorsorgeaufw_tu_bis_2004"].v
    /\ vors_out["vorsorgeaufw_tu_ab_2005_bis_2009"].v
           = vors_out["vorsorgeaufw_tu_bis_2004"].v

\* What C11 speaks about, read off the inputs: the basic health and care
\* amount B, the sum S of the other contributions, their cap, and the
\* pension part before and at its maximum.
VorsBasis ==
    12 * (vors_in.ges_pflegev_beitr_m_tu
          + ((100 - vors_in.eink_st_abzuege_params.vorsorge_kranken_minderung)
                 * vors_in.ges_krankenv_beitr_m_tu) \div 100)
VorsSonstige ==
    12 * (vors_in.arbeitsl_v_beitr_m_tu + vors_in.ges_pflegev_beitr_m_tu
              + vors_in.ges_krankenv_beitr_m_tu)
VorsSonstigeCap ==
    vors_in.eink_st_abzuege_params.vorsorge_sonstige_aufw_max * vors_in.anz_erwachsene_tu
VorsAlterRaw ==
    12 * ((vors_in.eink_st_abzuege_params.einfuehrungsfaktor_vorsorgeaufw_alter_ab_2005
               * (2 * vors_in.ges_rentenv_beitr_m_tu + vors_in.priv_rentenv_beitr_m_tu))
              \div 100
          - vors_in.ges_rentenv_beitr_m_tu)
VorsAlterCap ==
    vors_in.anz_erwachsene_tu * vors_in.eink_st_abzuege_params.vorsorge_altersaufw_max

\* C11 (post-2020 deduction): vorsorgeaufw_tu_ab_2020 is max(B, min(S, cap))
\* + vorsorgeaufw_alter_tu, so the part beside the pension part is never
\* below B, also when B exceeds cap; and vorsorgeaufw_alter_tu is the
\* phased-in pension amount cut at adult count * vorsorge_altersaufw_max,
\* which it never exceeds.
C11_DeductionAb2020 ==
    /\ Computed(vors_out, "vorsorgeaufw_tu_ab_2020") =>
           LET got == vors_out["vorsorgeaufw_tu_ab_2020"].v
               alter == vors_out["vorsorgeaufw_alter_tu"].v
               capped == IF VorsSonstige <= VorsSonstigeCap
                         THEN VorsSonstige ELSE VorsSonstigeCap
           IN  /\ got = (IF VorsBasis >= capped THEN VorsBasis ELSE capped) + alter
               /\ got - alter >= VorsBasis
    /\ Computed(vors_out, "vorsorgeaufw_alter_tu") =>
           LET alter == vors_out["vorsorgeaufw_alter_tu"].v
           IN  /\ alter <= VorsAlterCap
               /\ alter = IF VorsAlterRaw <= VorsAlterCap
                          THEN VorsAlterRaw ELSE VorsAlterCap

\* C11 witness: the basic health and care amount is above the cap of the
\* other contributions and the pension amount is above its maximum; the
\* deduction is then B plus the maximum.
C11_Witness ==
    /\ Computed(vors_out, "vorsorgeaufw_tu_ab_2020")
    /\ VorsBasis > VorsSonstigeCap
    /\ VorsSonstige > VorsSonstigeCap
    /\ VorsAlterRaw > VorsAlterCap
    /\ vors_out["vorsorgeaufw_alter_tu"].v = VorsAlterCap
    /\ vors_out["vorsorgeaufw_tu_ab_2020"].v = VorsBasis + VorsAlterCap

\* What C12 speaks about, read off the inputs: the Vorwegabzug and its
\* reduction by the share kuerzung of the yearly wage.
VorsVorwegabzug == vors_in.eink_st_abzuege_params.vorsorge2004_vorwegabzug
VorsKuerzung ==
    (vors_in.eink_st_abzuege_params.vorsorge2004_kuerzung_vorwegabzug
         * 12 * vors_in.bruttolohn_m_tu) \div 100

\* C12 (pre-2005 wage-deduction base term): _vorsorgeaufw_vom_lohn_tu_bis_2004
\* is max(vorwegabzug - kuerzung * 12 * wage, 0) for a tax unit not filing
\* jointly and max(0.5 * (2 * vorwegabzug - kuerzung * 12 * wage), 0) for
\* one filing jointly; it is never negative, it is 0 for vorwegabzug 3068,
\* kuerzung 0.16, monthly wage 2000 and a single filer, and
\* vorsorgeaufw_tu_bis_2004 is never smaller than it.
C12_VomLohnBaseTerm ==
    /\ Computed(vors_out, "_vorsorgeaufw_vom_lohn_tu_bis_2004") =>
           LET got == vors_out["_vorsorgeaufw_vom_lohn_tu_bis_2004"].v
               raw == IF vors_in.gemeinsam_veranlagt_tu
                      THEN (2 * VorsVorwegabzug - VorsKuerzung) \div 2
                      ELSE VorsVorwegabzug - VorsKuerzung
           IN  /\ got = IF raw >= 0 THEN raw ELSE 0
               /\ got >= 0
               /\ (/\ VorsVorwegabzug = Eur(3068)
                   /\ vors_in.eink_st_abzuege_params.vorsorge2004_kuerzung_vorwegabzug = 16
                   /\ vors_in.bruttolohn_m_tu = Eur(2000)
                   /\ ~vors_in.gemeinsam_veranlagt_tu) => got = 0
    /\ Computed(vors_out, "vorsorgeaufw_tu_bis_2004") =>
           vors_out["vorsorgeaufw_tu_bis_2004"].v
               >= vors_out["_vorsorgeaufw_vom_lohn_tu_bis_2004"].v

\* C12 witness: the single filer with monthly wage 2000, whose reduction
\* 3840 is above the Vorwegabzug 3068: the base term is 0 and the full
\* deduction, with pension and health contributions paid, is above it.
C12_Witness ==
    /\ ~vors_in.gemeinsam_veranlagt_tu
    /\ vors_in.bruttolohn_m_tu = Eur(2000)
    /\ VorsVorwegabzug = Eur(3068)
    /\ VorsKuerzung = Eur(3840)
    /\ Computed(vors_out, "vorsorgeaufw_tu_bis_2004")
    /\ vors_out["_vorsorgeaufw_vom_lohn_tu_bis_2004"].v = 0
    /\ vors_out["vorsorgeaufw_tu_bis_2004"].v > 0

\* C12 second case: a jointly filing tax unit with monthly wage 1000 keeps
\* half of 2 * 3068 - 1920, which is 2108.
C12_WitnessJoint ==
    /\ vors_in.gemeinsam_veranlagt_tu
    /\ vors_in.bruttolohn_m_tu = Eur(1000)
    /\ Computed(vors_out, "_vorsorgeaufw_vom_lohn_tu_bis_2004")
    /\ vors_out["_vorsorgeaufw_vom_lohn_tu_bis_2004"].v = Eur(2108)

\* ------------------------------------------- rente.py: Entgeltpunkte
\* Wages, contribution ceilings and the average wage are held in 1/100 Euro,
\* the conversion factor of the Beitrittsgebiet in percent and Entgeltpunkte
\* in 1/1000 point.  The values drawn below make every product and every
\* division of the three functions exact.
Cent(x) == 100 * x
\* One Entgeltpunkt (1.0) in fixed point.
EinPunkt == 1000

\* float(out) keeps the value of the parameter.
_ges_rentenv_beitr_bemess_grenze_m(wohnort_ost, soz_vers_beitr_params) ==
    LET params == soz_vers_beitr_params.beitr_bemess_grenze_m.ges_rentenv
        out == IF wohnort_ost THEN params.ost ELSE params.west
    IN  out

\* Mutant: the wage is cut at the ceiling first and scaled afterwards.
entgeltp_update_lohn_cap_before_scaling(bruttolohn_m, wohnort_ost, _ges_rentenv_beitr_bemess_grenze_m_, ges_rente_params) ==
    LET bruttolohn_rentenv == IF bruttolohn_m > _ges_rentenv_beitr_bemess_grenze_m_
                              THEN _ges_rentenv_beitr_bemess_grenze_m_
                              ELSE bruttolohn_m
        bruttolohn_scaled_rentenv ==
            IF wohnort_ost
            THEN (bruttolohn_rentenv
                      * ges_rente_params.umrechnung_entgeltp_beitrittsgebiet) \div 100
            ELSE bruttolohn_rentenv
        durchschnittslohn_m ==
            ges_rente_params.beitragspflichtiges_durchschnittsentgelt \div 12
    IN  (EinPunkt * bruttolohn_scaled_rentenv) \div durchschnittslohn_m

entgeltp_update_lohn(bruttolohn_m, wohnort_ost, _ges_rentenv_beitr_bemess_grenze_m_, ges_rente_params) ==
    LET bruttolohn_scaled_east ==
            IF wohnort_ost
            THEN (bruttolohn_m
                      * ges_rente_params.umrechnung_entgeltp_beitrittsgebiet) \div 100
            ELSE bruttolohn_m
        bruttolohn_scaled_rentenv ==
            IF bruttolohn_scaled_east > _ges_rentenv_beitr_bemess_grenze_m_
            THEN _ges_rentenv_beitr_bemess_grenze_m_
            ELSE bruttolohn_scaled_east
        durchschnittslohn_m ==
            ges_rente_params.beitragspflichtiges_durchschnittsentgelt \div 12
    IN  (EinPunkt * bruttolohn_scaled_rentenv) \div durchschnittslohn_m

entgeltp_update(entgeltp, entgeltp_update_lohn_) ==
    entgeltp + entgeltp_update_lohn_

\* ------------------------------------- rente.py: Entgeltpunkte, inputs
\* monthly gross wage: 0, 1500, .. 1500 * MaxLohn Euro
MaxLohn == 4

\* Conversion factor 1.08 or 1.20, average yearly wage 30000 or 48000 Euro.
EntgeltpRenteParams ==
    { [umrechnung_entgeltp_beitrittsgebiet |-> u,
       beitragspflichtiges_durchschnittsentgelt |-> Cent(d)]
      : u \in {108, 120}, d \in {30000, 48000} }

\* Monthly ceiling 4500 (East) and 5000 (West), or 6000 in both regions.
SozVersBeitrParams ==
    { [beitr_bemess_grenze_m |->
           [ges_rentenv |-> [ost |-> Cent(4500), west |-> Cent(5000)]]],
      [beitr_bemess_grenze_m |->
           [ges_rentenv |-> [ost |-> Cent(6000), west |-> Cent(6000)]]] }

EntgeltpInputs ==
    [bruttolohn_m : {Cent(1500 * k) : k \in 0..MaxLohn},
     wohnort_ost : BOOLEAN,
     entgeltp : {0, 40 * EinPunkt},
     ges_rente_params : EntgeltpRenteParams,
     soz_vers_beitr_params : SozVersBeitrParams]

EntgeltpNames == {"_ges_rentenv_beitr_bemess_grenze_m", "entgeltp_update_lohn",
                  "entgeltp_update"}

InitEntgeltp ==
    /\ entgeltp_in \in EntgeltpInputs
    /\ entgeltp_out = [n \in EntgeltpNames |-> NotComputed]
    /\ IdleRente /\ IdleVerm /\ IdleGrund /\ IdleEink /\ IdleVors

CalcBeitrBemessGrenze ==
    /\ Pending(entgeltp_out, "_ges_rentenv_beitr_bemess_grenze_m")
    /\ entgeltp_out' = [entgeltp_out EXCEPT !["_ges_rentenv_beitr_bemess_grenze_m"] =
           Val(_ges_rentenv_beitr_bemess_grenze_m(entgeltp_in.wohnort_ost,
                                                  entgeltp_in.soz_vers_beitr_params))]
    /\ UNCHANGED <<entgeltp_in, exceptEntgeltp>>

CalcEntgeltpUpdateLohn ==
    /\ Pending(entgeltp_out, "entgeltp_update_lohn")
    /\ Computed(entgeltp_out, "_ges_rentenv_beitr_bemess_grenze_m")
    /\ entgeltp_out' = [entgeltp_out EXCEPT !["entgeltp_update_lohn"] =
           Val(entgeltp_update_lohn(
                   entgeltp_in.bruttolohn_m, entgeltp_in.wohnort_ost,
                   entgeltp_out["_ges_rentenv_beitr_bemess_grenze_m"].v,
                   entgeltp_in.ges_rente_params))]
    /\ UNCHANGED <<entgeltp_in, exceptEntgeltp>>

CalcEntgeltpUpdate ==
    /\ Pending(entgeltp_out, "entgeltp_update")
    /\ Computed(entgeltp_out, "entgeltp_update_lohn")
    /\ entgeltp_out' = [entgeltp_out EXCEPT !["entgeltp_update"] =
           Val(entgeltp_update(entgeltp_in.entgeltp,
                               entgeltp_out["entgeltp_update_lohn"].v))]
    /\ UNCHANGED <<entgeltp_in, exceptEntgeltp>>

NextEntgeltp ==
    \/ CalcBeitrBemessGrenze
    \/ CalcEntgeltpUpdateLohn
    \/ CalcEntgeltpUpdate

SpecEntgeltp == InitEntgeltp /\ [][NextEntgeltp]_vars

\* What C13 speaks about, read off the inputs: the wage after the East
\* conversion, the ceiling of the person's region and the average monthly
\* wage.
EntgeltpScaledWage ==
    IF entgeltp_in.wohnort_ost
    THEN (entgeltp_in.bruttolohn_m
              * entgeltp_in.ges_rente_params.umrechnung_entgeltp_beitrittsgebiet) \div 100
    ELSE entgeltp_in.bruttolohn_m
EntgeltpCeiling ==
    IF entgeltp_in.wohnort_ost
    THEN entgeltp_in.soz_vers_beitr_params.beitr_bemess_grenze_m.ges_rentenv.ost
    ELSE entgeltp_in.soz_vers_beitr_params.beitr_bemess_grenze_m.ges_rentenv.west
EntgeltpAverageWageM ==
    entgeltp_in.ges_rente_params.beitragspflichtiges_durchschnittsentgelt \div 12

\* C13 (earning points): entgeltp_update is the prior earning points plus
\* the wage-derived points; the wage-derived points are min(scaled wage,
\* contribution ceiling) / (average yearly wage / 12), where the scaled wage
\* is the gross wage times the East conversion factor for an East-region
\* person and the gross wage itself otherwise; the wage is scaled before it
\* is cut, so the wage-derived points never exceed ceiling / average monthly
\* wage.
C13_EarningPoints ==
    /\ Computed(entgeltp_out, "entgeltp_update_lohn") =>
           LET got == entgeltp_out["entgeltp_update_lohn"].v
               ceiling == entgeltp_out["_ges_rentenv_beitr_bemess_grenze_m"].v
               capped == IF EntgeltpScaledWage <= ceiling
                         THEN EntgeltpScaledWage ELSE ceiling
           IN  /\ ceiling = EntgeltpCeiling
               /\ got * EntgeltpAverageWageM = EinPunkt * capped
               /\ got * EntgeltpAverageWageM <= EinPunkt * ceiling
    /\ Computed(entgeltp_out, "entgeltp_update") =>
           entgeltp_out["entgeltp_update"].v
               = entgeltp_in.entgeltp + entgeltp_out["entgeltp_update_lohn"].v

\* C13 witness: an East-region person with prior points whose wage is not
\* above the ceiling but whose scaled wage is; the wage-derived points are
\* then exactly ceiling / average monthly wage.
C13_Witness ==
    /\ entgeltp_in.wohnort_ost
    /\ entgeltp_in.entgeltp > 0
    /\ entgeltp_in.bruttolohn_m <= EntgeltpCeiling
    /\ EntgeltpScaledWage > EntgeltpCeiling
    /\ Computed(entgeltp_out, "entgeltp_update")
    /\ entgeltp_out["entgeltp_update_lohn"].v * EntgeltpAverageWageM
           = EinPunkt * EntgeltpCeiling
    /\ entgeltp_out["entgeltp_update"].v
           = entgeltp_in.entgeltp + entgeltp_out["entgeltp_update_lohn"].v

\* C13 second case: a West-region person below the ceiling, whose points
\* are the unscaled wage over the average monthly wage (3000 / 2500 = 1.2).
C13_WitnessWest ==
    /\ ~entgeltp_in.wohnort_ost
    /\ entgeltp_in.bruttolohn_m = Cent(3000)
    /\ EntgeltpAverageWageM = Cent(2500)
    /\ Computed(entgeltp_out, "entgeltp_update_lohn")
    /\ entgeltp_out["entgeltp_update_lohn"].v = 1200

\* ------------------------------------- rente.py: full-claim window
\* What C14 speaks about, read off the state: the age at retirement, the
\* normal retirement age (NRA) and the full retirement age (FRA) that the
\* docstring of ges_rente_grenze_altersrente describes: the earlier of the
\* Regelaltersgrenze and the age of the Altersrente fuer Frauen for a woman,
\* the Regelaltersgrenze for anybody else.
RenteAlterRenteneintritt ==
    720 * (rente_in.jahr_renteneintr - rente_in.geburtsjahr)
RenteNRA == rente_out["ges_rente_regelaltersgrenze"].v
RenteFRA ==
    LET frauen == piecewise_polynomial(
                      12 * rente_in.geburtsjahr + rente_in.geburtsmonat,
                      rente_in.ges_rente_params.altersrente_fuer_frauen)
    IN  IF rente_in.geschlecht # 0 /\ frauen < RenteNRA THEN frauen ELSE RenteNRA

\* C14 (full-claim window): for a retired person whose age at retirement
\* lies between the full retirement age and the normal retirement age,
\* both included, the Zugangsfaktor is exactly 1; it is below 1 only for
\* retirement before the FRA and above 1 only for retirement after the NRA.
C14_FullClaimWindow ==
    (rente_in.rentner /\ Computed(rente_out, "ges_rente_zugangsfaktor")) =>
        LET got == rente_out["ges_rente_zugangsfaktor"].v
        IN  /\ (RenteFRA <= RenteAlterRenteneintritt
                    /\ RenteAlterRenteneintritt <= RenteNRA) => got = One
            /\ got < One => RenteAlterRenteneintritt < RenteFRA
            /\ got > One => RenteAlterRenteneintritt > RenteNRA

\* Where C14 fails with rates of the statutory sign: a woman born in
\* January 1955 (FRA 60, NRA 65.6) who retires in 2020 at 65, within the
\* window, gets 1 + (-0.6) * 0.036 = 0.9784.
C14_Divergence ==
    /\ rente_in.rentner
    /\ rente_in.geschlecht = 1
    /\ rente_in.geburtsjahr = 1955
    /\ rente_in.geburtsmonat = 1
    /\ rente_in.jahr_renteneintr = 2020
    /\ RenteEarlyRate = 36
    /\ RenteLateRate = 60
    /\ Computed(rente_out, "ges_rente_zugangsfaktor")
    /\ RenteNRA = 47232
    /\ RenteFRA = 60 * 720
    /\ RenteFRA <= RenteAlterRenteneintritt
    /\ RenteAlterRenteneintritt <= RenteNRA
    /\ rente_out["ges_rente_zugangsfaktor"].v = 704448

\* The window as far as the code honours it: at the NRA itself the
\* Zugangsfaktor of a retired person is exactly 1.
C14_FullClaimAtNRA ==
    (/\ rente_in.rentner
     /\ Computed(rente_out, "ges_rente_zugangsfaktor")
     /\ RenteAlterRenteneintritt = RenteNRA) =>
        rente_out["ges_rente_zugangsfaktor"].v = One

=============================================================================
